---- MODULE Spec2Model ----
(***************************************************************************)
(* A model of the software rasterizer of lab5-graficas: the framebuffer    *)
(* (src/src/framebuffer.rs) and the rasterization pipeline                 *)
(* (src/src/renderer.rs), the functions of the shaders and of the mesh     *)
(* generator that are called on their own, and the loop of main            *)
(* (src/src/main.rs).                                                      *)
(*                                                                         *)
(* Numbers.  An f32 of the pipeline is modelled as an exact rational       *)
(* <<n, d>> (d > 0, lowest terms): rounding is not modelled.  A depth      *)
(* handed to set_pixel is a record that can also be +infinity or NaN, the  *)
(* two non-finite values the depth plane and its callers can hold.         *)
(*                                                                         *)
(* Shading.  The colour arithmetic of the shading programs (noise,         *)
(* transcendental functions) is not modelled: fragment keeps what the      *)
(* pipeline relies on, a pure function of (program, world position, time)  *)
(* into a Color.  The world normal only feeds that arithmetic and is left  *)
(* out.                                                                    *)
(***************************************************************************)
EXTENDS Integers, Sequences, FiniteSets, TLC

VARIABLES width, height, buffer, zbuffer, renderer, status, base, log

\* The locals of main that its loop reads and writes; current_real_time,
\* frame_time (the local time of the loop body) and keys are those of the
\* last frame.
VARIABLES obj_sphere, use_obj_model, current_shader, star, paused, paused_time,
          last_active_time, camera_distance, current_real_time, frame_time, keys

mainVars ==
    <<obj_sphere, use_obj_model, current_shader, star, paused, paused_time,
      last_active_time, camera_distance, current_real_time, frame_time, keys>>

vars == <<width, height, buffer, zbuffer, renderer, status, base, log, mainVars>>

(***************************************************************************)
(* Bounds of the model.                                                    *)
(***************************************************************************)
FbWidth == 4
FbHeight == 2
MaxCalls == 2
MaxRings == 12
MaxSectors == 12
\* The last reading of the clock, in ticks.
MaxClock == 3

(***************************************************************************)
(* Exact rationals.                                                        *)
(***************************************************************************)
Abs(i) == IF i < 0 THEN -i ELSE i

RECURSIVE GCD(_, _)
GCD(a, b) == IF b = 0 THEN a ELSE GCD(b, a % b)

R(n, d) ==
    LET g == GCD(Abs(n), Abs(d))
        s == IF d < 0 THEN -1 ELSE 1
    IN  <<(s * n) \div g, (s * d) \div g>>

RInt(i) == <<i, 1>>
\* Sums are formed over the least common denominator.
RAdd(a, b) ==
    LET g == GCD(a[2], b[2])
    IN  R(a[1] * (b[2] \div g) + b[1] * (a[2] \div g), (a[2] \div g) * b[2])
RSub(a, b) ==
    LET g == GCD(a[2], b[2])
    IN  R(a[1] * (b[2] \div g) - b[1] * (a[2] \div g), (a[2] \div g) * b[2])
RMul(a, b) == R(a[1] * b[1], a[2] * b[2])
RDiv(a, b) == R(a[1] * b[2], a[2] * b[1])
RLt(a, b) == a[1] * b[2] < b[1] * a[2]
RLe(a, b) == a[1] * b[2] <= b[1] * a[2]
RAbs(a) == <<Abs(a[1]), a[2]>>
RMin(a, b) == IF RLt(b, a) THEN b ELSE a
RMax(a, b) == IF RLt(a, b) THEN b ELSE a
\* a < 1/k for a >= 0 and k > 0, without forming the product a[1] * k.
RBelowInverse(a, k) == a[1] <= (a[2] - 1) \div k
RFloor(a) == a[1] \div a[2]
RCeil(a) == -((-a[1]) \div a[2])

(***************************************************************************)
(* f32 depths: finite, +infinity or NaN.  FLt is the f32 `<`: false as     *)
(* soon as one side is NaN.  NegInf is the -infinity a colour component    *)
(* can be.                                                                 *)
(***************************************************************************)
Fin(r) == [k |-> "fin", v |-> r]
Inf == [k |-> "inf", v |-> <<0, 1>>]
NaN == [k |-> "nan", v |-> <<0, 1>>]
NegInf == [k |-> "ninf", v |-> <<0, 1>>]

FLt(a, b) ==
    /\ a.k # "nan"
    /\ b.k # "nan"
    /\ \/ a.k = "fin" /\ b.k = "inf"
       \/ a.k = "fin" /\ b.k = "fin" /\ RLt(a.v, b.v)

FEq(a, b) == a.k # "nan" /\ b.k # "nan" /\ a = b

(***************************************************************************)
(* framebuffer.rs                                                          *)
(***************************************************************************)
Color(r, g, b) == [r |-> r, g |-> g, b |-> b]

\* f32::clamp(0.0, 1.0): NaN stays NaN.
Clamp01(c) ==
    IF c.k = "nan" THEN NaN
    ELSE IF c.k = "inf" THEN Fin(RInt(1))
    ELSE IF c.k = "ninf" THEN Fin(RInt(0))
    ELSE Fin(RMax(RInt(0), RMin(c.v, RInt(1))))

\* `f as u8`: truncates, saturates at 0 and 255, and takes NaN to 0.
AsU8(c) ==
    IF c.k = "nan" \/ c.k = "ninf" THEN 0
    ELSE IF c.k = "inf" THEN 255
    ELSE LET t == IF c.v[1] < 0 THEN RCeil(c.v) ELSE RFloor(c.v)
         IN  IF t < 0 THEN 0 ELSE IF t > 255 THEN 255 ELSE t

\* f32 * 255.0
Times255(c) == IF c.k = "fin" THEN Fin(RMul(c.v, RInt(255))) ELSE c

\* A channel scaled without the clamp, into a byte that wraps.
ChannelWrapping(c) ==
    IF c.k # "fin" THEN AsU8(c) ELSE RFloor(RMul(c.v, RInt(255))) % 256

\* One channel of from_vec3: (c.clamp(0.0, 1.0) * 255.0) as u8.
Channel(c) == AsU8(Times255(Clamp01(c)))

\* Color::from_vec3
from_vec3(v) == Color(Channel(v[1]), Channel(v[2]), Channel(v[3]))

\* A colour plane of three bytes per pixel.
FramebufferNewRgb(w, h) ==
    [width |-> w, height |-> h,
     buffer |-> [i \in 1..(w * h * 3) |-> 0],
     zbuffer |-> [i \in 1..(w * h) |-> Inf],
     status |-> "ok"]

\* Framebuffer::new: colour plane of zero bytes, depth plane of +infinity.
FramebufferNew(w, h) ==
    [width |-> w, height |-> h,
     buffer |-> [i \in 1..(w * h * 4) |-> 0],
     zbuffer |-> [i \in 1..(w * h) |-> Inf],
     status |-> "ok"]

\* Vec indexing is bounds-checked: v[i] (0-based) panics when i >= v.len().
InVec(v, i) == i >= 0 /\ i < Len(v)

\* ClearPixel without the alpha byte.
ClearPixelNoAlpha(buf, i, color) ==
    LET idx == i * 4
    IN  [buf EXCEPT ![idx + 1] = color.r, ![idx + 2] = color.g, ![idx + 3] = color.b]

\* One iteration of the loop of clear: the four bytes of pixel i.
ClearPixel(buf, i, color) ==
    LET idx == i * 4
    IN  [buf EXCEPT ![idx + 1] = color.r, ![idx + 2] = color.g,
                    ![idx + 3] = color.b, ![idx + 4] = 255]

RECURSIVE ClearLoop(_, _, _, _)
ClearLoop(buf, i, n, color) ==
    IF i >= n THEN buf ELSE ClearLoop(ClearPixel(buf, i, color), i + 1, n, color)

\* clear without the reset of the depth plane.
ClearKeepsDepth(fb, color) ==
    [fb EXCEPT !.buffer = ClearLoop(fb.buffer, 0, fb.width * fb.height, color)]

\* Framebuffer::clear
clear(fb, color) ==
    [fb EXCEPT !.buffer = ClearLoop(fb.buffer, 0, fb.width * fb.height, color),
               !.zbuffer = [i \in 1..Len(fb.zbuffer) |-> Inf]]

\* The bounds test with > for >=.
OutOfBoundsOffByOne(fb, x, y) == x > fb.width \/ y > fb.height

\* The bounds test of set_pixel.
OutOfBounds(fb, x, y) == x >= fb.width \/ y >= fb.height

\* The row-major index of set_pixel.
PixelIndex(fb, x, y) == y * fb.width + x

\* The depth test with <= for <, no depth test at all, and the test that
\* keeps the farther write.
DepthTestLessOrEqual(depth, stored) == FLt(depth, stored) \/ FEq(depth, stored)
DepthTestAlways(depth, stored) == TRUE
DepthTestFarther(depth, stored) == FLt(stored, depth)

\* The depth test of set_pixel.
DepthTest(depth, stored) == FLt(depth, stored)

\* An accepted write that stores the colour and not the depth.
StorePixelNoDepth(fb, index, color, depth) ==
    LET idx == index * 4
    IN  [fb EXCEPT !.buffer[idx + 1] = color.r,
                   !.buffer[idx + 2] = color.g,
                   !.buffer[idx + 3] = color.b,
                   !.buffer[idx + 4] = 255]

\* An accepted write that stores the depth and not the colour.
StorePixelDepthOnly(fb, index, color, depth) ==
    [fb EXCEPT !.zbuffer[index + 1] = depth]

\* What an accepted write stores.
StorePixel(fb, index, color, depth) ==
    LET idx == index * 4
    IN  [fb EXCEPT !.zbuffer[index + 1] = depth,
                   !.buffer[idx + 1] = color.r,
                   !.buffer[idx + 2] = color.g,
                   !.buffer[idx + 3] = color.b,
                   !.buffer[idx + 4] = 255]

\* Framebuffer::set_pixel
set_pixel(fb, x, y, color, depth) ==
    IF fb.status # "ok" THEN fb
    ELSE IF OutOfBounds(fb, x, y) THEN fb
    ELSE LET index == PixelIndex(fb, x, y)
         IN  IF ~InVec(fb.zbuffer, index) THEN [fb EXCEPT !.status = "panicked"]
             ELSE IF DepthTest(depth, fb.zbuffer[index + 1])
                  THEN StorePixel(fb, index, color, depth)
                  ELSE fb

\* Read-back of one pixel (as_bytes, row-major RGBA).
PixelBytes(buf, w, x, y) ==
    LET o == (y * w + x) * 4
    IN  <<buf[o + 1], buf[o + 2], buf[o + 3], buf[o + 4]>>

PixelDepth(zb, w, x, y) == zb[y * w + x + 1]

(***************************************************************************)
(* shaders: the StarShader interface.  LinearPalette stands for the linear  *)
(* RGB the programs compute (components above 1 from additive emission,    *)
(* below 0 from subtraction); every program returns it through             *)
(* Color::from_vec3.                                                       *)
(***************************************************************************)
LinearPalette ==
    <<<<Fin(RInt(1)), Fin(R(4, 5)), Fin(R(1, 5))>>,
      <<Fin(R(1, 5)), Fin(R(2, 5)), Fin(RInt(1))>>,
      <<Fin(R(3, 2)), Fin(RInt(2)), Fin(RInt(1))>>,
      <<Fin(R(-1, 2)), Fin(RInt(0)), Fin(RInt(0))>>>>

\* The final_color of a program's fragment.
final_color(shader, pos, time) ==
    LinearPalette[((RFloor(pos[1]) + 2 * RFloor(pos[2]) + 3 * RFloor(pos[3])
                    + shader + time) % Len(LinearPalette)) + 1]

\* The colours the programs produce.
Palette == [k \in 1..Len(LinearPalette) |-> from_vec3(LinearPalette[k])]

\* StarShader::fragment: shader is the program (0 Classic-Sun, 1 Pulsar,
\* 2 Plasma, 3 Supernova), pos the interpolated world position.
fragment(shader, pos, time) == from_vec3(final_color(shader, pos, time))

(***************************************************************************)
(* shaders.rs: the noise functions.  An i32 is an integer of               *)
(* -2^31..2^31-1; the wrapping operations are computed on 16-bit halves so *)
(* that no intermediate value leaves that range.  A noise coordinate is a  *)
(* finite f32: Fin(r), or a value at or beyond 2^31 in magnitude (Huge,    *)
(* NegHuge), which is an integer and whose `as i32` saturates.             *)
(***************************************************************************)
I32Max == 2147483647
I32Min == -2147483647 - 1

Hi16(i) == (i \div 65536) % 65536
Lo16(i) == i % 65536
FromHalves(hi, lo) ==
    IF hi >= 32768 THEN (hi - 65536) * 65536 + lo ELSE hi * 65536 + lo

\* i32::wrapping_add
wrapping_add(a, b) ==
    LET lo == Lo16(a) + Lo16(b)
        hi == Hi16(a) + Hi16(b) + (lo \div 65536)
    IN  FromHalves(hi % 65536, lo % 65536)

\* The low 16 bits of the product of two 16-bit values.
MulLow16(x, y) == (x * (y % 256) + 256 * ((x * (y \div 256)) % 256)) % 65536

\* i32::wrapping_mul
wrapping_mul(a, b) ==
    LET al == Lo16(a)
        ah == Hi16(a)
        bl == Lo16(b)
        bh == Hi16(b)
        p0 == al * (bl % 256)
        p1 == al * (bl \div 256)
        low == p0 + 256 * (p1 % 256)
        carry == (low \div 65536) + (p1 \div 256)
        hi == carry + MulLow16(ah, bl) + MulLow16(al, bh)
    IN  FromHalves(hi % 65536, low % 65536)

\* Bitwise exclusive or of two naturals, and of two i32.
RECURSIVE XorNat(_, _)
XorNat(a, b) ==
    IF a = 0 THEN b
    ELSE IF b = 0 THEN a
    ELSE ((a + b) % 2) + 2 * XorNat(a \div 2, b \div 2)

Xor(a, b) == FromHalves(XorNat(Hi16(a), Hi16(b)), XorNat(Lo16(a), Lo16(b)))

\* n >> 13 on an i32 (arithmetic shift).
Shr13(n) == n \div 8192

\* A plain `a + b` on i32: with overflow checks (the debug profile) an
\* overflow panics, without them (the release profile) it wraps.
Overflows(a, b) == (b > 0 /\ a > I32Max - b) \/ (b < 0 /\ a < I32Min - b)

\* hash: the result is n & 0xff.
hash(x, y, z) ==
    LET n0 == wrapping_add(wrapping_add(wrapping_mul(x, 374761393),
                                        wrapping_mul(y, 668265263)),
                           wrapping_mul(z, 1274126177))
        n1 == wrapping_mul(Xor(n0, Shr13(n0)), 1274126177)
    IN  n1 % 256

\* grad
grad(h0, x, y, z) ==
    LET h == h0 % 16
        u == IF h < 8 THEN x ELSE y
        v == IF h < 4 THEN y ELSE IF h = 12 \/ h = 14 THEN x ELSE z
        neg(a) == RSub(RInt(0), a)
    IN  RAdd(IF h % 2 = 0 THEN u ELSE neg(u),
             IF (h \div 2) % 2 = 0 THEN v ELSE neg(v))

\* fade: t * t * t * (t * (t * 6.0 - 15.0) + 10.0)
fade(t) ==
    RMul(RMul(RMul(t, t), t),
         RAdd(RMul(t, RSub(RMul(t, RInt(6)), RInt(15))), RInt(10)))

\* lerp: a + t * (b - a)
lerp(a, b, t) == RAdd(a, RMul(t, RSub(b, a)))

Huge == [k |-> "huge", v |-> <<0, 1>>]
NegHuge == [k |-> "neghuge", v |-> <<0, 1>>]

\* x.floor() as i32, and x - x.floor().
FloorAsI32(x) ==
    IF x.k = "huge" THEN I32Max
    ELSE IF x.k = "neghuge" THEN I32Min
    ELSE RFloor(x.v)

Fract(x) == IF x.k = "fin" THEN RSub(x.v, RInt(RFloor(x.v))) ELSE RInt(0)

\* perlin_noise.  overflow_checks is the build's choice for the plain
\* `yi + 1`, `zi + 1` and `xi + 1`.
perlin_noise(x, y, z, overflow_checks) ==
    LET xi == FloorAsI32(x)
        yi == FloorAsI32(y)
        zi == FloorAsI32(z)
        xf == Fract(x)
        yf == Fract(y)
        zf == Fract(z)
        one == RInt(1)
    IN  IF overflow_checks /\ (Overflows(yi, 1) \/ Overflows(zi, 1) \/ Overflows(xi, 1))
        THEN [status |-> "panicked", hashes |-> <<>>, value |-> RInt(0)]
        ELSE LET x1 == wrapping_add(xi, 1)
                 y1 == wrapping_add(yi, 1)
                 z1 == wrapping_add(zi, 1)
                 u == fade(xf)
                 v == fade(yf)
                 w == fade(zf)
                 aaa == hash(xi, yi, zi)
                 aba == hash(xi, y1, zi)
                 aab == hash(xi, yi, z1)
                 abb == hash(xi, y1, z1)
                 baa == hash(x1, yi, zi)
                 bba == hash(x1, y1, zi)
                 bab == hash(x1, yi, z1)
                 bbb == hash(x1, y1, z1)
                 xm == RSub(xf, one)
                 ym == RSub(yf, one)
                 zm == RSub(zf, one)
                 lx1 == lerp(grad(aaa, xf, yf, zf), grad(baa, xm, yf, zf), u)
                 lx2 == lerp(grad(aba, xf, ym, zf), grad(bba, xm, ym, zf), u)
                 ly1 == lerp(lx1, lx2, v)
                 lx3 == lerp(grad(aab, xf, yf, zm), grad(bab, xm, yf, zm), u)
                 lx4 == lerp(grad(abb, xf, ym, zm), grad(bbb, xm, ym, zm), u)
                 ly2 == lerp(lx3, lx4, v)
             IN  [status |-> "ok",
                  hashes |-> <<aaa, aba, aab, abb, baa, bba, bab, bbb>>,
                  value |-> RMul(RAdd(lerp(ly1, ly2, w), one), R(1, 2))]

\* cell_noise: fract(sin(..) * 43758.5453), a value of (-1, 1) that depends
\* on the cell only.  The sine is not modelled: the value is a fixed
\* function of the cell into the fifths of (-1, 1).
cell_noise(x, y, z) == R(((3 * x + 5 * y + 7 * z) % 9) - 4, 5)

\* f32::sqrt, computed to a sixteenth (rounded down).
Sqrt(r) ==
    LET m == (r[1] * 256) \div r[2]
        k == CHOOSE i \in 0..256 : i * i <= m /\ m < (i + 1) * (i + 1)
    IN  R(k, 16)

Sq(r) == RMul(r, r)

\* The distance from (x, y, z) to the feature point of cell (cx, cy, cz).
FeatureDistance(x, y, z, cx, cy, cz) ==
    LET point_x == RAdd(RInt(cx), cell_noise(cx, cy, cz))
        point_y == RAdd(RInt(cy), cell_noise(cx + 1, cy + 2, cz + 3))
        point_z == RAdd(RInt(cz), cell_noise(cx + 4, cy + 5, cz + 6))
    IN  Sqrt(RAdd(RAdd(Sq(RSub(x, point_x)), Sq(RSub(y, point_y))),
                  Sq(RSub(z, point_z))))

\* cellular_noise on finite coordinates: 1.0 - min_dist.min(1.0), min_dist
\* the least of 10.0 and the distances to the feature points of the 27
\* cells around.
cellular_noise(x, y, z) ==
    LET xi == RFloor(x.v)
        yi == RFloor(y.v)
        zi == RFloor(z.v)
        dists == {FeatureDistance(x.v, y.v, z.v, xi + i, yi + j, zi + k) :
                      i \in -1..1, j \in -1..1, k \in -1..1} \cup {RInt(10)}
        min_dist == CHOOSE d \in dists : \A e \in dists : RLe(d, e)
    IN  RSub(RInt(1), RMin(min_dist, RInt(1)))

(***************************************************************************)
(* renderer.rs                                                             *)
(***************************************************************************)
\* Renderer::new
RendererNew(w, h) == [width |-> w, height |-> h]

\* Mat4 * Mat4 and Mat4 * Vec4 (matrices as rows of integers).
MatMul(A, B) ==
    [i \in 1..4 |-> [j \in 1..4 |->
        A[i][1] * B[1][j] + A[i][2] * B[2][j] + A[i][3] * B[3][j] + A[i][4] * B[4][j]]]

MatVec(M, v) ==
    [i \in 1..4 |-> M[i][1] * v[1] + M[i][2] * v[2] + M[i][3] * v[3] + M[i][4] * v[4]]

\* The guard of the perspective divide: w.abs() < 1e-6.
DegenerateW(w) == RBelowInverse(RAbs(RInt(w)), 1000000)

\* Renderer::transform_vertex
transform_vertex(rd, vertex, model_matrix, mvp) ==
    LET pos4 == <<vertex[1], vertex[2], vertex[3], 1>>
        world_pos == MatVec(model_matrix, pos4)
        clip_pos == MatVec(mvp, pos4)
        w == clip_pos[4]
        wp == <<RInt(world_pos[1]), RInt(world_pos[2]), RInt(world_pos[3])>>
    IN  IF DegenerateW(w)
        THEN [screen_pos |-> <<RInt(-1000), RInt(-1000)>>,
              depth |-> RInt(1),
              world_pos |-> wp]
        ELSE LET ndc == <<R(clip_pos[1], w), R(clip_pos[2], w), R(clip_pos[3], w)>>
                 half == R(1, 2)
             IN  [screen_pos |->
                      <<RMul(RMul(RAdd(ndc[1], RInt(1)), half), RInt(rd.width)),
                        RMul(RMul(RSub(RInt(1), ndc[2]), half), RInt(rd.height))>>,
                  depth |-> ndc[3],
                  world_pos |-> wp]

\* Vec2 helpers.
Sub2(a, b) == <<RSub(a[1], b[1]), RSub(a[2], b[2])>>
Dot2(a, b) == RAdd(RMul(a[1], b[1]), RMul(a[2], b[2]))

\* The degenerate-triangle test of barycentric: denom.abs() < 1e-8.
DegenerateDenom(denom) == RBelowInverse(RAbs(denom), 100000000)

\* barycentric with the first weight computed as 1 - v.
BarycentricNoW(p, a, b, c) ==
    LET v0 == Sub2(b, a)
        v1 == Sub2(c, a)
        v2 == Sub2(p, a)
        d00 == Dot2(v0, v0)
        d01 == Dot2(v0, v1)
        d11 == Dot2(v1, v1)
        d20 == Dot2(v2, v0)
        d21 == Dot2(v2, v1)
        denom == RSub(RMul(d00, d11), RMul(d01, d01))
    IN  IF DegenerateDenom(denom)
        THEN <<RInt(0), RInt(0), RInt(0)>>
        ELSE LET v == RDiv(RSub(RMul(d11, d20), RMul(d01, d21)), denom)
                 w == RDiv(RSub(RMul(d00, d21), RMul(d01, d20)), denom)
             IN  <<RSub(RInt(1), v), v, w>>

\* barycentric: the weights (u, v, w) of p in triangle (a, b, c).
barycentric(p, a, b, c) ==
    LET v0 == Sub2(b, a)
        v1 == Sub2(c, a)
        v2 == Sub2(p, a)
        d00 == Dot2(v0, v0)
        d01 == Dot2(v0, v1)
        d11 == Dot2(v1, v1)
        d20 == Dot2(v2, v0)
        d21 == Dot2(v2, v1)
        denom == RSub(RMul(d00, d11), RMul(d01, d01))
    IN  IF DegenerateDenom(denom)
        THEN <<RInt(0), RInt(0), RInt(0)>>
        ELSE LET v == RDiv(RSub(RMul(d11, d20), RMul(d01, d21)), denom)
                 w == RDiv(RSub(RMul(d00, d21), RMul(d01, d20)), denom)
             IN  <<RSub(RSub(RInt(1), v), w), v, w>>

\* `f as usize`: a negative value saturates to 0.
AsUsize(i) == IF i < 0 THEN 0 ELSE i

IMin(a, b) == IF b < a THEN b ELSE a
IMax(a, b) == IF a < b THEN b ELSE a

\* The bounding box without the clamp to the last column and the last row.
BoundingBoxNoMaxClamp(rd, v0, v1, v2) ==
    LET x0 == v0.screen_pos[1]
        x1 == v1.screen_pos[1]
        x2 == v2.screen_pos[1]
        y0 == v0.screen_pos[2]
        y1 == v1.screen_pos[2]
        y2 == v2.screen_pos[2]
    IN  [min_x |-> AsUsize(IMax(RFloor(RMin(RMin(x0, x1), x2)), 0)),
         max_x |-> AsUsize(RCeil(RMax(RMax(x0, x1), x2))),
         min_y |-> AsUsize(IMax(RFloor(RMin(RMin(y0, y1), y2)), 0)),
         max_y |-> AsUsize(RCeil(RMax(RMax(y0, y1), y2)))]

\* The clamped bounding box of rasterize_triangle.
BoundingBox(rd, v0, v1, v2) ==
    LET x0 == v0.screen_pos[1]
        x1 == v1.screen_pos[1]
        x2 == v2.screen_pos[1]
        y0 == v0.screen_pos[2]
        y1 == v1.screen_pos[2]
        y2 == v2.screen_pos[2]
    IN  [min_x |-> AsUsize(IMax(RFloor(RMin(RMin(x0, x1), x2)), 0)),
         max_x |-> AsUsize(IMin(RCeil(RMax(RMax(x0, x1), x2)), rd.width - 1)),
         min_y |-> AsUsize(IMax(RFloor(RMin(RMin(y0, y1), y2)), 0)),
         max_y |-> AsUsize(IMin(RCeil(RMax(RMax(y0, y1), y2)), rd.height - 1))]

\* The pixels the two loops of rasterize_triangle visit, in visiting order.
BoxPixels(bb) ==
    IF bb.max_x < bb.min_x \/ bb.max_y < bb.min_y THEN <<>>
    ELSE LET nx == bb.max_x - bb.min_x + 1
             ny == bb.max_y - bb.min_y + 1
         IN  [k \in 1..(nx * ny) |->
                 <<bb.min_x + ((k - 1) % nx), bb.min_y + ((k - 1) \div nx)>>]

\* The weights of the centre of pixel px.
PixelWeights(px, v0, v1, v2) ==
    barycentric(<<R(2 * px[1] + 1, 2), R(2 * px[2] + 1, 2)>>,
                v0.screen_pos, v1.screen_pos, v2.screen_pos)

\* The coverage test with > for >=.
CoveredStrict(wt) == RLt(RInt(0), wt[1]) /\ RLt(RInt(0), wt[2]) /\ RLt(RInt(0), wt[3])

\* The coverage test: w0 >= 0.0 && w1 >= 0.0 && w2 >= 0.0.
Covered(wt) == RLe(RInt(0), wt[1]) /\ RLe(RInt(0), wt[2]) /\ RLe(RInt(0), wt[3])

Interp(wt, a0, a1, a2) == RAdd(RAdd(RMul(wt[1], a0), RMul(wt[2], a1)), RMul(wt[3], a2))

\* The set_pixel call of one covered pixel.
Fragment(px, v0, v1, v2, shader, time) ==
    LET wt == PixelWeights(px, v0, v1, v2)
        depth == Interp(wt, v0.depth, v1.depth, v2.depth)
        world_pos == [i \in 1..3 |->
                         Interp(wt, v0.world_pos[i], v1.world_pos[i], v2.world_pos[i])]
    IN  [x |-> px[1], y |-> px[2],
         color |-> fragment(shader, world_pos, time),
         depth |-> Fin(depth)]

\* The set_pixel calls rasterize_triangle issues, in order.
TriangleWrites(rd, v0, v1, v2, shader, time) ==
    LET visited == BoxPixels(BoundingBox(rd, v0, v1, v2))
        IsCovered(px) == Covered(PixelWeights(px, v0, v1, v2))
        covered == SelectSeq(visited, IsCovered)
    IN  [k \in 1..Len(covered) |-> Fragment(covered[k], v0, v1, v2, shader, time)]

RECURSIVE ApplyWrites(_, _, _)
ApplyWrites(fb, ws, k) ==
    IF k > Len(ws) THEN fb
    ELSE ApplyWrites(set_pixel(fb, ws[k].x, ws[k].y, ws[k].color, ws[k].depth), ws, k + 1)

\* Renderer::rasterize_triangle
rasterize_triangle(rd, fb, v0, v1, v2, shader, time) ==
    ApplyWrites(fb, TriangleWrites(rd, v0, v1, v2, shader, time), 1)

\* The index check of render_mesh.
IndicesValid(i0, i1, i2, n) == i0 < n /\ i1 < n /\ i2 < n

\* A failed check that ends the loop.
SkipTriangleBreak(fb, continued) == fb

\* A triple that fails the check: the loop goes on with the next one.
SkipTriangle(fb, continued) == continued

\* The loop of render_mesh over the index triples, i the 0-based start of
\* the current triple.  indices[i + 1] and indices[i + 2] are bounds-checked
\* reads: past the end they panic.
RECURSIVE RenderLoop(_, _, _, _, _, _, _)
RenderLoop(rd, fb, tv, indices, i, shader, time) ==
    IF fb.status # "ok" \/ i >= Len(indices) THEN fb
    ELSE IF ~InVec(indices, i + 1) \/ ~InVec(indices, i + 2)
         THEN [fb EXCEPT !.status = "panicked"]
         ELSE LET i0 == indices[i + 1]
                  i1 == indices[i + 2]
                  i2 == indices[i + 3]
              IN  IF IndicesValid(i0, i1, i2, Len(tv))
                  THEN RenderLoop(rd,
                                  rasterize_triangle(rd, fb, tv[i0 + 1], tv[i1 + 1],
                                                     tv[i2 + 1], shader, time),
                                  tv, indices, i + 3, shader, time)
                  ELSE SkipTriangle(fb,
                                    RenderLoop(rd, fb, tv, indices, i + 3, shader, time))

\* The transformed vertices of a draw call.
TransformAll(rd, mesh, model_matrix, view_matrix, projection_matrix) ==
    LET mvp == MatMul(MatMul(projection_matrix, view_matrix), model_matrix)
    IN  [k \in 1..Len(mesh.vertices) |->
            transform_vertex(rd, mesh.vertices[k], model_matrix, mvp)]

\* Renderer::render_mesh
render_mesh(rd, fb, mesh, shader, model_matrix, view_matrix, projection_matrix, time) ==
    RenderLoop(rd, fb,
               TransformAll(rd, mesh, model_matrix, view_matrix, projection_matrix),
               mesh.indices, 0, shader, time)

(***************************************************************************)
(* mesh.rs: ObjMesh::create_sphere.  A vertex is identified by its ring    *)
(* (0 the north pole, rings the south pole) and its sector; its position   *)
(* and normal, sines and cosines of the two angles, are not modelled.      *)
(***************************************************************************)
SphereVertex(ring, sector) == [ring |-> ring, sector |-> sector]

\* The rings between the poles without the vertex that closes each ring.
SphereRingsOpen(rings, sectors) ==
    [k \in 1..((rings - 1) * sectors) |->
        SphereVertex(1 + ((k - 1) \div sectors), (k - 1) % sectors)]

\* The rings between the poles: for r in 1..rings, for s in 0..=sectors.
SphereRings(rings, sectors) ==
    [k \in 1..((rings - 1) * (sectors + 1)) |->
        SphereVertex(1 + ((k - 1) \div (sectors + 1)), (k - 1) % (sectors + 1))]

SphereVertices(rings, sectors) ==
    <<SphereVertex(0, 0)>> \o SphereRings(rings, sectors) \o <<SphereVertex(rings, 0)>>

\* The triangles from the north pole to the first ring.
NorthCap(sectors) ==
    [k \in 1..(3 * sectors) |->
        LET s == (k - 1) \div 3
        IN  <<0, 1 + s, 1 + s + 1>>[((k - 1) % 3) + 1]]

\* Two triangles per quad between consecutive rings.
RingQuads(rings, sectors) ==
    [k \in 1..(6 * sectors * (rings - 2)) |->
        LET q == (k - 1) \div 6
            r == q \div sectors
            s == q % sectors
            current == 1 + r * (sectors + 1) + s
            next == current + sectors + 1
        IN  <<current, next, current + 1, current + 1, next, next + 1>>[((k - 1) % 6) + 1]]

\* The triangles from the last ring to the south pole.
SouthCap(vertices, sectors) ==
    LET south_pole_index == Len(vertices) - 1
        last_ring_start == south_pole_index - (sectors + 1)
    IN  [k \in 1..(3 * sectors) |->
            LET s == (k - 1) \div 3
            IN  <<last_ring_start + s, south_pole_index,
                  last_ring_start + s + 1>>[((k - 1) % 3) + 1]]

\* ObjMesh::create_sphere, for rings >= 2 and sectors >= 1.
create_sphere(rings, sectors) ==
    LET vertices == SphereVertices(rings, sectors)
    IN  [vertices |-> vertices,
         indices |-> NorthCap(sectors) \o RingQuads(rings, sectors)
                         \o SouthCap(vertices, sectors)]

(***************************************************************************)
(* The inputs the model draws from.                                        *)
(***************************************************************************)
\* Color::new(5, 5, 15) is the clear colour of main; BLACK and WHITE are the
\* constants of Color.
ClearColors == {Color(5, 5, 15), Color(0, 0, 0)}
PixelColors == {Color(255, 255, 255), Color(0, 0, 0)}
PixelDepths == {Fin(RInt(0)), Fin(R(1, 2)), Inf, NaN}

\* Pixel coordinates: the first and the last pixel, and the first column and
\* the first row out of bounds.
PixelCoords == {<<0, 0>>, <<width - 1, height - 1>>, <<width, 0>>, <<0, height>>}

Identity == <<<<1, 0, 0, 0>>, <<0, 1, 0, 0>>, <<0, 0, 1, 0>>, <<0, 0, 0, 1>>>>
\* A translation by one along z.
TranslateZ == <<<<1, 0, 0, 0>>, <<0, 1, 0, 0>>, <<0, 0, 1, 1>>, <<0, 0, 0, 1>>>>
\* A projection whose clip-space w is the z of its input (w = 0 on z = 0).
ProjectW == <<<<1, 0, 0, 0>>, <<0, 1, 0, 0>>, <<0, 0, 1, -1>>, <<0, 0, 1, 0>>>>

\* The frame inputs of a draw call: <<model, view, projection, shading
\* program, time>>.
Frames ==
    {<<Identity, Identity, Identity, 0, 0>>,
     <<TranslateZ, Identity, Identity, 1, 1>>,
     <<Identity, Identity, ProjectW, 0, 0>>}

\* Object-space positions.  Under the identity matrices the first four are
\* the corners of the viewport, the fifth its centre.
Pool ==
    <<<<-1, 1, 0>>, <<1, 1, 0>>, <<-1, -1, 0>>, <<1, -1, 1>>, <<0, 0, 0>>, <<1, -1, 2>>>>

IndexLists ==
    {<<>>,
     <<0, 1, 2>>,          \* the upper-left half of the viewport
     <<1, 3, 2>>,          \* the lower-right half
     <<0, 1, 2, 1, 3, 2>>, \* both
     <<0, 4, 3>>,          \* three collinear screen positions
     <<0, 1, 5>>,
     <<0, 1, 6>>,          \* an index past the vertices
     <<0, 7, 2, 0, 1, 2>>, \* a triple to skip before a good one
     <<0, 1, 2, 0>>,       \* a length that is no multiple of 3
     <<0, 1>>}

Meshes ==
    {[vertices |-> Pool, indices |-> il] : il \in IndexLists}
        \cup {[vertices |-> <<>>, indices |-> <<0, 1, 2>>]}

(***************************************************************************)
(* main.rs: what main constructs before its loop.  The two meshes are      *)
(* small stand-ins for create_sphere(1.0, 64, 64) and the mesh of          *)
(* assets/sphere.obj; obj_sphere is the Option the load returns, None or   *)
(* Some(mesh), as a sequence of length 0 or 1.  Times are whole ticks of   *)
(* the clock.                                                              *)
(***************************************************************************)
sphere_mesh == [vertices |-> Pool, indices |-> <<0, 1, 2>>]
LoadedMesh == [vertices |-> Pool, indices |-> <<1, 3, 2>>]
None == <<>>
Some(mesh) == <<mesh>>
is_some(option) == option # None

\* The closure get_sphere, over the two meshes.
get_sphere(loaded, use_obj) ==
    IF use_obj /\ is_some(loaded) THEN loaded[1] ELSE sphere_mesh

\* The star with the first program whatever shader_type is.
CreateStarClassic(loaded, use_obj, shader_type) ==
    [mesh |-> get_sphere(loaded, use_obj), shader |-> "ClassicSunShader"]

\* The closure create_star.
create_star(loaded, use_obj, shader_type) ==
    [mesh |-> get_sphere(loaded, use_obj),
     shader |-> CASE shader_type = 0 -> "ClassicSunShader"
                  [] shader_type = 1 -> "PulsarShader"
                  [] shader_type = 2 -> "PlasmaStarShader"
                  [] shader_type = 3 -> "SupernovaShader"
                  [] OTHER -> "ClassicSunShader"]

shader_names ==
    <<"1: Sol Clasico (Perlin + Turbulence)", "2: Pulsar (Simplex + Pulsacion)",
      "3: Estrella de Plasma (Cellular + Vortex)", "4: Supernova (Multi-layer + Flare)">>

\* The program a StarShader object runs, as fragment numbers them.
Program(shader) ==
    CASE shader = "ClassicSunShader" -> 0
      [] shader = "PulsarShader" -> 1
      [] shader = "PlasmaStarShader" -> 2
      [] shader = "SupernovaShader" -> 3

\* The locals as main sets them, load being the result of load_from_obj.
MainLocals(load) ==
    /\ obj_sphere = load
    /\ use_obj_model = is_some(load)
    /\ current_shader = 0
    /\ star = create_star(load, is_some(load), 0)
    /\ paused = FALSE
    /\ paused_time = 0
    /\ last_active_time = 0
    /\ camera_distance = R(7, 2)
    /\ current_real_time = 0
    /\ frame_time = 0
    /\ keys = {}

(***************************************************************************)
(* The run: a framebuffer and a renderer of the same size, and any         *)
(* sequence of clear, set_pixel and render_mesh on them.  base and log     *)
(* record the history since the framebuffer was last reset: how it was     *)
(* reset (constructed or cleared) and the calls made since.  A panic ends  *)
(* the run.                                                                *)
(***************************************************************************)
Fb ==
    [width |-> width, height |-> height, buffer |-> buffer, zbuffer |-> zbuffer,
     status |-> status]

SetFb(fb) ==
    /\ width' = fb.width
    /\ height' = fb.height
    /\ buffer' = fb.buffer
    /\ zbuffer' = fb.zbuffer
    /\ status' = fb.status

SetPixelCall(x, y, color, depth) ==
    [op |-> "set_pixel", x |-> x, y |-> y, color |-> color, depth |-> depth]

RenderMeshCall(mesh, f) ==
    [op |-> "render_mesh", mesh |-> mesh, model_matrix |-> f[1], view_matrix |-> f[2],
     projection_matrix |-> f[3], shader |-> f[4], time |-> f[5]]

\* The effect of one logged call.
Call(rd, fb, c) ==
    IF c.op = "set_pixel" THEN set_pixel(fb, c.x, c.y, c.color, c.depth)
    ELSE render_mesh(rd, fb, c.mesh, c.shader, c.model_matrix, c.view_matrix,
                     c.projection_matrix, c.time)

Init ==
    /\ width = FbWidth
    /\ height = FbHeight
    /\ buffer = FramebufferNew(FbWidth, FbHeight).buffer
    /\ zbuffer = FramebufferNew(FbWidth, FbHeight).zbuffer
    /\ status = "ok"
    /\ renderer = RendererNew(FbWidth, FbHeight)
    /\ base = [kind |-> "new", color |-> Color(0, 0, 0)]
    /\ log = <<>>
    /\ MainLocals(None)

Clear ==
    /\ status = "ok"
    /\ \E color \in ClearColors :
          /\ SetFb(clear(Fb, color))
          /\ base' = [kind |-> "clear", color |-> color]
          /\ log' = <<>>
    /\ UNCHANGED <<renderer, mainVars>>

SetPixel ==
    /\ status = "ok"
    /\ Len(log) < MaxCalls
    /\ \E p \in PixelCoords, color \in PixelColors, depth \in PixelDepths :
          LET c == SetPixelCall(p[1], p[2], color, depth)
          IN  /\ SetFb(Call(renderer, Fb, c))
              /\ log' = Append(log, c)
    /\ UNCHANGED <<renderer, base, mainVars>>

RenderMesh ==
    /\ status = "ok"
    /\ Len(log) < MaxCalls
    /\ \E mesh \in Meshes, f \in Frames :
          LET c == RenderMeshCall(mesh, f)
          IN  /\ SetFb(Call(renderer, Fb, c))
              /\ log' = Append(log, c)
    /\ UNCHANGED <<renderer, base, mainVars>>

Next == Clear \/ SetPixel \/ RenderMesh

Spec == Init /\ [][Next]_vars

(***************************************************************************)
(* The functions on their own.  From the constructed framebuffer, one call *)
(* of a function of the program on inputs drawn from the sets below; log   *)
(* records the call and what it returned.                                  *)
(***************************************************************************)
\* Screen points: the corners of the viewport, the midpoints of its long
\* sides, and two points a two-hundredth of a pixel from the origin.
BaryCorners == {<<RInt(x), RInt(y)>> : x \in {0, 2, 4}, y \in {0, 2}}
BaryTriangles ==
    {<<a, b, c>> : a \in BaryCorners, b \in BaryCorners, c \in BaryCorners}
        \cup {<<<<RInt(0), RInt(0)>>, <<R(1, 200), RInt(0)>>, <<RInt(0), R(1, 200)>>>>}
\* Points on the half-pixel grid, in and around the viewport.
BaryPoints == {<<R(i, 2), R(j, 2)>> : i \in -1..9, j \in -1..5}

BarycentricCall(p, a, b, c) ==
    [op |-> "barycentric", p |-> p, a |-> a, b |-> b, c |-> c,
     out |-> barycentric(p, a, b, c)]

Barycentric ==
    /\ log = <<>>
    /\ \E t \in BaryTriangles, p \in BaryPoints :
          log' = <<BarycentricCall(p, t[1], t[2], t[3])>>
    /\ UNCHANGED <<width, height, buffer, zbuffer, renderer, status, base, mainVars>>

\* Linear colour components: below, in and above [0, 1], and not finite.
Components ==
    {Fin(R(-1, 2)), Fin(RInt(0)), Fin(R(1, 510)), Fin(R(1, 2)), Fin(R(254, 255)),
     Fin(RInt(1)), Fin(R(3, 2)), Fin(RInt(1000000)), Inf, NegInf, NaN}

FromVec3Call(v) == [op |-> "from_vec3", v |-> v, out |-> from_vec3(v)]

FromVec3 ==
    /\ log = <<>>
    /\ \E x \in Components, y \in Components, z \in Components :
          log' = <<FromVec3Call(<<x, y, z>>)>>
    /\ UNCHANGED <<width, height, buffer, zbuffer, renderer, status, base, mainVars>>

\* World positions handed to a shading program.
ShaderPositions == {<<RInt(x), R(y, 2), RInt(0)>> : x \in -1..1, y \in -1..1}

ShaderFragmentCall(shader, pos, time) ==
    [op |-> "fragment", shader |-> shader, pos |-> pos, time |-> time,
     final_color |-> final_color(shader, pos, time),
     out |-> fragment(shader, pos, time)]

ShaderFragment ==
    /\ log = <<>>
    /\ \E shader \in 0..3, pos \in ShaderPositions, time \in 0..1 :
          log' = <<ShaderFragmentCall(shader, pos, time)>>
    /\ UNCHANGED <<width, height, buffer, zbuffer, renderer, status, base, mainVars>>

\* Noise coordinates: the quarters of [-2, 2), the largest f32 below 2^31,
\* and finite values whose floor saturates.
NoiseQuarters == {Fin(R(k, 4)) : k \in -8..7}
NoiseCoords == NoiseQuarters \cup {Fin(RInt(2147483520)), Huge, NegHuge}

PerlinNoiseCall(x, y, z, overflow_checks) ==
    [op |-> "perlin_noise", x |-> x, y |-> y, z |-> z,
     overflow_checks |-> overflow_checks,
     out |-> perlin_noise(x, y, z, overflow_checks)]

PerlinNoise ==
    /\ log = <<>>
    /\ \E x \in NoiseCoords, y \in NoiseCoords, z \in NoiseCoords,
          overflow_checks \in BOOLEAN :
          log' = <<PerlinNoiseCall(x, y, z, overflow_checks)>>
    /\ UNCHANGED <<width, height, buffer, zbuffer, renderer, status, base, mainVars>>

CellularNoiseCall(x, y, z) ==
    [op |-> "cellular_noise", x |-> x, y |-> y, z |-> z,
     out |-> cellular_noise(x, y, z)]

CellularNoise ==
    /\ log = <<>>
    /\ \E x \in NoiseQuarters, y \in NoiseQuarters, z \in NoiseQuarters :
          log' = <<CellularNoiseCall(x, y, z)>>
    /\ UNCHANGED <<width, height, buffer, zbuffer, renderer, status, base, mainVars>>

CreateSphereCall(rings, sectors) ==
    [op |-> "create_sphere", rings |-> rings, sectors |-> sectors,
     out |-> create_sphere(rings, sectors)]

CreateSphere ==
    /\ log = <<>>
    /\ \E rings \in 2..MaxRings, sectors \in 1..MaxSectors :
          log' = <<CreateSphereCall(rings, sectors)>>
    /\ UNCHANGED <<width, height, buffer, zbuffer, renderer, status, base, mainVars>>

\* A TransformedVertex at screen position (x, y) with depth d.
ScreenVertex(x, y, d) ==
    [screen_pos |-> <<RInt(x), RInt(y)>>, depth |-> d,
     world_pos |-> <<RInt(x), RInt(y), d>>]

\* Screen-space triangles, as triples of positions: in the viewport, across
\* its border, around it, off each of its sides, far away, and degenerate.
ScreenTriangles ==
    {<<<<0, 0>>, <<2, 2>>, <<0, 2>>>>,       \* these two share the edge
     <<<<0, 0>>, <<2, 0>>, <<2, 2>>>>,       \* (0,0)-(2,2)
     <<<<0, 0>>, <<width, 0>>, <<0, height>>>>,
     <<<<-2, -1>>, <<3, 1>>, <<-2, 3>>>>,
     <<<<-4, -4>>, <<12, -4>>, <<-4, 12>>>>,
     <<<<-3, 0>>, <<-1, 0>>, <<-3, 2>>>>,
     <<<<width + 1, 0>>, <<width + 3, 0>>, <<width + 1, 2>>>>,
     <<<<0, -3>>, <<2, -3>>, <<0, -1>>>>,
     <<<<0, height + 1>>, <<2, height + 1>>, <<0, height + 3>>>>,
     <<<<-2, 1>>, <<1, -2>>, <<-2, -2>>>>,   \* cuts no pixel, its box does
     <<<<-1000, -1000>>, <<-999, -1000>>, <<-1000, -999>>>>,
     <<<<0, 0>>, <<2, 1>>, <<4, 2>>>>}       \* collinear

\* The depths of the three vertices.
VertexDepths == {<<RInt(0), RInt(0), RInt(0)>>, <<R(1, 2), RInt(1), RInt(0)>>}

RasterizeTriangleCall(rd, t, d, shader, time) ==
    LET v0 == ScreenVertex(t[1][1], t[1][2], d[1])
        v1 == ScreenVertex(t[2][1], t[2][2], d[2])
        v2 == ScreenVertex(t[3][1], t[3][2], d[3])
    IN  [op |-> "rasterize_triangle", v0 |-> v0, v1 |-> v1, v2 |-> v2,
         shader |-> shader, time |-> time]

\* rasterize_triangle on the framebuffer as the calls before left it.
RasterizeTriangle ==
    /\ status = "ok"
    /\ Len(log) < MaxCalls
    /\ \A k \in 1..Len(log) : log[k].op = "rasterize_triangle"
    /\ \E t \in ScreenTriangles, d \in VertexDepths :
          LET c == RasterizeTriangleCall(renderer, t, d, 0, 0)
          IN  /\ SetFb(rasterize_triangle(renderer, Fb, c.v0, c.v1, c.v2, c.shader, c.time))
              /\ log' = Append(log, c)
    /\ UNCHANGED <<renderer, base, mainVars>>

UnitNext ==
    \/ RasterizeTriangle
    \/ Barycentric
    \/ FromVec3
    \/ ShaderFragment
    \/ PerlinNoise
    \/ CellularNoise
    \/ CreateSphere

UnitSpec == Init /\ [][UnitNext]_vars

(***************************************************************************)
(* main.rs: the loop.  One step is one frame: it reads the clock and the   *)
(* keyboard, updates the locals, clears the framebuffer and draws the      *)
(* star.  The matrices main computes from time and camera_distance         *)
(* (rotation, look_at, perspective) are not computed: a frame draws with   *)
(* any of FrameMatrices.                                                   *)
(***************************************************************************)
Keys == {"ONE", "TWO", "THREE", "FOUR", "M", "SPACE", "UP", "DOWN"}

\* The keys of a frame: none, one, or some pairs and more.
KeyCombos ==
    {{}} \cup {{k} : k \in Keys}
         \cup {{"ONE", "TWO"}, {"FOUR", "M"}, {"M", "SPACE"}, {"UP", "DOWN"},
               {"THREE", "SPACE", "UP"}}

ZoomCombos == SUBSET {"UP", "DOWN"}

FrameMatrices == {<<Identity, Identity, Identity>>, <<TranslateZ, Identity, Identity>>}

\* The time of a frame that ignores the pause.
FrameTimeRunning(now) == now

\* let time = if paused { paused_time } else { ... }
FrameTime(now) ==
    IF paused THEN paused_time ELSE last_active_time + (now - last_active_time)

\* The shader selected after the keys 1 to 4, tested in that order.
SelectShader(pressed) ==
    LET s1 == IF "ONE" \in pressed THEN 0 ELSE current_shader
        s2 == IF "TWO" \in pressed THEN 1 ELSE s1
        s3 == IF "THREE" \in pressed THEN 2 ELSE s2
    IN  IF "FOUR" \in pressed THEN 3 ELSE s3

\* The toggle without the test of the load.
ToggleModelAlways(pressed) == "M" \in pressed

\* is_key_pressed(KEY_M) && obj_sphere.is_some()
ToggleModel(pressed) == "M" \in pressed /\ is_some(obj_sphere)

\* The zoom-out step without its clamp.
ZoomOutUnclamped(d) == RAdd(d, R(1, 50))

\* camera_distance -= 0.02; camera_distance = camera_distance.max(2.0)
ZoomIn(d) == RMax(RSub(d, R(1, 50)), RInt(2))
\* camera_distance += 0.02; camera_distance = camera_distance.min(10.0)
ZoomOut(d) == RMin(RAdd(d, R(1, 50)), RInt(10))

Zoom(pressed) ==
    LET d1 == IF "UP" \in pressed THEN ZoomIn(camera_distance) ELSE camera_distance
    IN  IF "DOWN" \in pressed THEN ZoomOut(d1) ELSE d1

\* The call of render_mesh of a frame.
FrameCall(st, m, t) ==
    RenderMeshCall(st.mesh, <<m[1], m[2], m[3], Program(st.shader), t>>)

\* One pass of the loop body, with the clock at now, the keys pressed (or
\* held, for UP and DOWN) and the matrices m.
Frame(now, pressed, m) ==
    LET t == FrameTime(now)
        shader == SelectShader(pressed)
        toggles == ToggleModel(pressed)
        use_obj == IF toggles THEN ~use_obj_model ELSE use_obj_model
        selected == pressed \cap {"ONE", "TWO", "THREE", "FOUR"} # {}
        star1 == IF selected THEN create_star(obj_sphere, use_obj_model, shader) ELSE star
        star2 == IF toggles THEN create_star(obj_sphere, use_obj, shader) ELSE star1
        space == "SPACE" \in pressed
        resumed == space /\ paused
        pause_duration == now - paused_time
        last1 == IF resumed THEN now - pause_duration ELSE last_active_time
        paused1 == IF space THEN ~paused ELSE paused
        c == FrameCall(star2, m, t)
    IN  /\ status = "ok"
        /\ current_real_time' = now
        /\ frame_time' = t
        /\ keys' = pressed
        /\ current_shader' = shader
        /\ use_obj_model' = use_obj
        /\ star' = star2
        /\ paused' = paused1
        /\ paused_time' = IF space /\ ~paused THEN t ELSE paused_time
        /\ last_active_time' = IF ~paused1 THEN t ELSE last1
        /\ camera_distance' = Zoom(pressed)
        /\ SetFb(Call(renderer, clear(Fb, Color(5, 5, 15)), c))
        /\ base' = [kind |-> "clear", color |-> Color(5, 5, 15)]
        /\ log' = <<c>>
        /\ UNCHANGED <<renderer, obj_sphere>>

\* After construction, with the model file loaded or not.
LoopInit ==
    /\ width = FbWidth
    /\ height = FbHeight
    /\ buffer = FramebufferNew(FbWidth, FbHeight).buffer
    /\ zbuffer = FramebufferNew(FbWidth, FbHeight).zbuffer
    /\ status = "ok"
    /\ renderer = RendererNew(FbWidth, FbHeight)
    /\ base = [kind |-> "new", color |-> Color(0, 0, 0)]
    /\ log = <<>>
    /\ \E load \in {None, Some(LoadedMesh)} : MainLocals(load)

\* A frame with any keys, the clock having advanced.
LoopNext ==
    \E now \in (current_real_time + 1)..MaxClock, pressed \in KeyCombos,
       m \in FrameMatrices :
        Frame(now, pressed, m)

LoopSpec == LoopInit /\ [][LoopNext]_vars

\* A frame with only the zoom keys held.  The clock advances by a tick up
\* to its last reading and reads the same from then on, so that frames go
\* on.
ZoomNext ==
    \E pressed \in ZoomCombos, m \in FrameMatrices :
        Frame(IF current_real_time < MaxClock THEN current_real_time + 1 ELSE MaxClock,
              pressed, m)

ZoomSpec == LoopInit /\ [][ZoomNext]_vars

(***************************************************************************)
(* What the properties are stated with.                                    *)
(***************************************************************************)
\* The step is one call of op; NewCall is that call.
IsCall(op) == Len(log') = Len(log) + 1 /\ log'[Len(log')].op = op
NewCall == log'[Len(log')]

AllPixels == {<<x, y>> : x \in 0..(width - 1), y \in 0..(height - 1)}
InBounds(x, y) == x < width /\ y < height
Rgb(color) == <<color.r, color.g, color.b>>
PixelRgb(buf, x, y) == SubSeq(PixelBytes(buf, width, x, y), 1, 3)
PixelAlpha(buf, x, y) == PixelBytes(buf, width, x, y)[4]
SamePixel(x, y) ==
    /\ PixelBytes(buffer', width, x, y) = PixelBytes(buffer, width, x, y)
    /\ PixelDepth(zbuffer', width, x, y) = PixelDepth(zbuffer, width, x, y)
FramebufferUnchanged == buffer' = buffer /\ zbuffer' = zbuffer

(***************************************************************************)
(* C1.  An in-bounds set_pixel(x, y, color, depth) replaces the colour and *)
(* the depth of pixel (x, y) by the supplied ones if depth is strictly     *)
(* less than the depth stored there, leaves them as they were otherwise,   *)
(* and never changes another pixel.                                        *)
(***************************************************************************)
C1_SetPixelDepthTest ==
    [][(IsCall("set_pixel") /\ InBounds(NewCall.x, NewCall.y)) =>
          LET c == NewCall
              closer == FLt(c.depth, PixelDepth(zbuffer, width, c.x, c.y))
          IN  /\ closer => /\ PixelRgb(buffer', c.x, c.y) = Rgb(c.color)
                           /\ PixelDepth(zbuffer', width, c.x, c.y) = c.depth
              /\ ~closer => SamePixel(c.x, c.y)
              /\ \A p \in AllPixels \ {<<c.x, c.y>>} : SamePixel(p[1], p[2])]_vars

\* A closer write landed on the last pixel, after a farther one there.
C1_Witness ==
    /\ Len(log) = 2
    /\ log[1] = SetPixelCall(width - 1, height - 1, Color(0, 0, 0), Fin(R(1, 2)))
    /\ log[2] = SetPixelCall(width - 1, height - 1, Color(255, 255, 255), Fin(RInt(0)))
    /\ PixelRgb(buffer, width - 1, height - 1) = <<255, 255, 255>>
    /\ PixelDepth(zbuffer, width, width - 1, height - 1) = Fin(RInt(0))

(***************************************************************************)
(* C2.  set_pixel with x >= width or y >= height is a silent no-op: the    *)
(* call returns and no colour byte and no depth entry changes.             *)
(***************************************************************************)
C2_OutOfBoundsNoOp ==
    [][(IsCall("set_pixel") /\ ~InBounds(NewCall.x, NewCall.y)) =>
          (FramebufferUnchanged /\ status' = "ok")]_vars

\* Out-of-bounds calls were made on a framebuffer that holds a write.
C2_Witness ==
    /\ Len(log) = 2
    /\ log[1].op = "set_pixel" /\ log[1].x = 0 /\ log[1].y = 0
    /\ log[2].op = "set_pixel" /\ log[2].x = width /\ log[2].y = 0
    /\ log[2].depth = Fin(RInt(0))
    /\ PixelDepth(zbuffer, width, 0, 0) = Fin(R(1, 2))
    /\ status = "ok"

(***************************************************************************)
(* C3.  Right after clear(c), whatever came before, every pixel has RGB c  *)
(* and alpha 255 and every depth entry is +infinity.                       *)
(***************************************************************************)
C3_ClearResetsEverything ==
    (base.kind = "clear" /\ log = <<>>) =>
        /\ \A p \in AllPixels :
              /\ PixelRgb(buffer, p[1], p[2]) = Rgb(base.color)
              /\ PixelAlpha(buffer, p[1], p[2]) = 255
        /\ \A i \in 1..Len(zbuffer) : zbuffer[i] = Inf
        /\ Len(zbuffer) = width * height

C3_Witness ==
    /\ base = [kind |-> "clear", color |-> Color(5, 5, 15)]
    /\ log = <<>>
    /\ PixelBytes(buffer, width, width - 1, height - 1) = <<5, 5, 15, 255>>

(***************************************************************************)
(* C5.  First writer wins on ties: when a set_pixel call was accepted for  *)
(* a pixel and the next call submits exactly the same depth for the same   *)
(* pixel, that call changes nothing.                                       *)
(***************************************************************************)
C5_FirstWriterWins ==
    [][(/\ IsCall("set_pixel")
        /\ Len(log) > 0
        /\ log[Len(log)].op = "set_pixel"
        /\ InBounds(NewCall.x, NewCall.y)
        /\ log[Len(log)].x = NewCall.x
        /\ log[Len(log)].y = NewCall.y
        /\ FEq(log[Len(log)].depth, NewCall.depth)
        /\ PixelDepth(zbuffer, width, NewCall.x, NewCall.y) = log[Len(log)].depth
        /\ PixelRgb(buffer, NewCall.x, NewCall.y) = Rgb(log[Len(log)].color))
       => FramebufferUnchanged]_vars

\* Two writes of one depth and two colours: the pixel shows the first colour.
C5_Witness ==
    /\ Len(log) = 2
    /\ log[1] = SetPixelCall(0, 0, Color(255, 255, 255), Fin(R(1, 2)))
    /\ log[2] = SetPixelCall(0, 0, Color(0, 0, 0), Fin(R(1, 2)))
    /\ PixelRgb(buffer, 0, 0) = <<255, 255, 255>>

(***************************************************************************)
(* The triangles of a draw call and the writes of a run, for the           *)
(* properties of rendering.                                                *)
(***************************************************************************)
\* The triangles a draw call is to rasterize, in order: the complete index
\* triples whose three indices are vertices.
RECURSIVE TriplesFrom(_, _, _, _)
TriplesFrom(c, tv, i, n) ==
    IF i + 2 >= Len(c.mesh.indices) THEN <<>>
    ELSE LET i0 == c.mesh.indices[i + 1]
             i1 == c.mesh.indices[i + 2]
             i2 == c.mesh.indices[i + 3]
             rest == TriplesFrom(c, tv, i + 3, n)
         IN  IF i0 < n /\ i1 < n /\ i2 < n
             THEN <<[op |-> "triangle", i |-> <<i0, i1, i2>>,
                     v0 |-> tv[i0 + 1], v1 |-> tv[i1 + 1], v2 |-> tv[i2 + 1],
                     shader |-> c.shader, time |-> c.time]>> \o rest
             ELSE rest

DrawnTriangles(rd, c) ==
    LET tv == TransformAll(rd, c.mesh, c.model_matrix, c.view_matrix, c.projection_matrix)
    IN  TriplesFrom(c, tv, 0, Len(tv))

\* The pixel writes and triangles of a sequence of calls.
RECURSIVE Items(_, _)
Items(rd, calls) ==
    IF calls = <<>> THEN <<>>
    ELSE (IF Head(calls).op = "set_pixel" THEN <<Head(calls)>>
          ELSE DrawnTriangles(rd, Head(calls))) \o Items(rd, Tail(calls))

ApplyItem(rd, fb, it) ==
    IF it.op = "set_pixel" THEN set_pixel(fb, it.x, it.y, it.color, it.depth)
    ELSE rasterize_triangle(rd, fb, it.v0, it.v1, it.v2, it.shader, it.time)

RECURSIVE ReplayItems(_, _, _)
ReplayItems(rd, fb, items) ==
    IF items = <<>> THEN fb
    ELSE ReplayItems(rd, ApplyItem(rd, fb, Head(items)), Tail(items))

RECURSIVE Replay(_, _, _)
Replay(rd, fb, calls) ==
    IF calls = <<>> THEN fb ELSE Replay(rd, Call(rd, fb, Head(calls)), Tail(calls))

\* A framebuffer of the same size, constructed and cleared on its own.
Cleared(color) == clear(FramebufferNew(width, height), color)

\* The set_pixel calls of an item.
ItemWrites(rd, it) ==
    IF it.op = "set_pixel" THEN <<it>>
    ELSE TriangleWrites(rd, it.v0, it.v1, it.v2, it.shader, it.time)

\* No two writes of different items submit equal depths for one pixel.
NoTies(rd, items) ==
    \A i, j \in 1..Len(items) :
        i < j =>
            LET wi == ItemWrites(rd, items[i])
                wj == ItemWrites(rd, items[j])
            IN  \A a \in 1..Len(wi), b \in 1..Len(wj) :
                    (wi[a].x = wj[b].x /\ wi[a].y = wj[b].y /\ InBounds(wi[a].x, wi[a].y))
                        => ~FEq(wi[a].depth, wj[b].depth)

\* The denominator barycentric computes for a triangle.
ScreenDenom(t) ==
    LET e0 == Sub2(t.v1.screen_pos, t.v0.screen_pos)
        e1 == Sub2(t.v2.screen_pos, t.v0.screen_pos)
    IN  RSub(RMul(Dot2(e0, e0), Dot2(e1, e1)), RMul(Dot2(e0, e1), Dot2(e0, e1)))

ScreenDegenerate(t) == RBelowInverse(RAbs(ScreenDenom(t)), 100000000)

\* The clip-space w of vertex k (0-based) of a draw call.
ClipW(c, k) ==
    LET v == c.mesh.vertices[k + 1]
        mvp == MatMul(MatMul(c.projection_matrix, c.view_matrix), c.model_matrix)
    IN  MatVec(mvp, <<v[1], v[2], v[3], 1>>)[4]

SmallW(c, k) == Abs(ClipW(c, k)) * 1000000 < 1

UsesSmallW(c, t) == \E k \in 1..3 : SmallW(c, t.i[k])

(***************************************************************************)
(* C4.  Draw-order independence: from a cleared framebuffer, the same      *)
(* pixel writes and triangles applied in any order end with the same       *)
(* colour plane and depth plane, provided no two of them submit equal      *)
(* depths for one pixel.                                                   *)
(***************************************************************************)
C4_DrawOrderIndependent ==
    (status = "ok" /\ base.kind = "clear") =>
        LET items == Items(renderer, log)
            n == Len(items)
        IN  NoTies(renderer, items) =>
                \A p \in Permutations(1..n) :
                    ReplayItems(renderer, Cleared(base.color),
                                [k \in 1..n |-> items[p[k]]]) = Fb

\* The upper-left triangle drawn far (depth 1), then near (depth 0): the
\* near one shows.
C4_Witness ==
    /\ base.kind = "clear"
    /\ status = "ok"
    /\ Len(log) = 2
    /\ log[1] = RenderMeshCall([vertices |-> Pool, indices |-> <<0, 1, 2>>],
                               <<TranslateZ, Identity, Identity, 1, 1>>)
    /\ log[2] = RenderMeshCall([vertices |-> Pool, indices |-> <<0, 1, 2>>],
                               <<Identity, Identity, Identity, 0, 0>>)
    /\ NoTies(renderer, Items(renderer, log))
    /\ PixelDepth(zbuffer, width, 0, 0) = Fin(RInt(0))

(***************************************************************************)
(* C6.  A triangle that is degenerate in screen space (barycentric         *)
(* denominator below 1e-8 in magnitude) covers no pixel: a draw call whose *)
(* triangles are all degenerate leaves the colour plane and the depth      *)
(* plane unchanged.                                                        *)
(***************************************************************************)
C6_DegenerateCoversNothing ==
    [][(/\ IsCall("render_mesh")
        /\ \A k \in 1..Len(DrawnTriangles(renderer, NewCall)) :
              ScreenDegenerate(DrawnTriangles(renderer, NewCall)[k]))
       => FramebufferUnchanged]_vars

(***************************************************************************)
(* C7.  A vertex whose clip-space w is below 1e-6 in magnitude gets screen *)
(* position (-1000, -1000) and depth 1.0, and a triangle that uses such a  *)
(* vertex changes no pixel: a draw call whose triangles all use one leaves *)
(* the colour plane and the depth plane unchanged.                         *)
(***************************************************************************)
C7_SmallWDrawsNothing ==
    [][IsCall("render_mesh") =>
          LET c == NewCall
              tv == TransformAll(renderer, c.mesh, c.model_matrix, c.view_matrix,
                                 c.projection_matrix)
              drawn == DrawnTriangles(renderer, c)
          IN  /\ \A k \in 1..Len(tv) :
                    SmallW(c, k - 1) =>
                        /\ tv[k].screen_pos = <<RInt(-1000), RInt(-1000)>>
                        /\ tv[k].depth = RInt(1)
              /\ (\A k \in 1..Len(drawn) : UsesSmallW(c, drawn[k]))
                    => FramebufferUnchanged]_vars

(***************************************************************************)
(* C8.  render_mesh runs to completion on any mesh, also one whose index   *)
(* sequence has a length that is no multiple of 3 or holds values past the *)
(* vertices, or whose vertex sequence is empty.                            *)
(***************************************************************************)
C8_RenderMeshNeverAborts ==
    (log # <<>> /\ log[Len(log)].op = "render_mesh") => status = "ok"

(***************************************************************************)
(* C9.  render_mesh skips an index triple with an index past the vertices  *)
(* and rasterizes the other triples as if the skipped ones were absent: a  *)
(* call leaves the planes as rasterizing only its in-range triples, in     *)
(* order, leaves them, and unchanged when no triple is in range.           *)
(***************************************************************************)
C9_OutOfRangeTriplesSkipped ==
    [][IsCall("render_mesh") =>
          LET drawn == DrawnTriangles(renderer, NewCall)
              r == ReplayItems(renderer, Fb, drawn)
          IN  /\ buffer' = r.buffer
              /\ zbuffer' = r.zbuffer
              /\ drawn = <<>> => FramebufferUnchanged]_vars

\* A triple was skipped and the triangle after it drawn.
C9_Witness ==
    /\ base.kind = "clear"
    /\ status = "ok"
    /\ Len(log) = 1
    /\ log[1] = RenderMeshCall([vertices |-> Pool, indices |-> <<0, 7, 2, 0, 1, 2>>],
                               <<Identity, Identity, Identity, 0, 0>>)
    /\ PixelDepth(zbuffer, width, 0, 0) = Fin(RInt(0))

C11_PlanesSameSize ==
    /\ Len(buffer) = 4 * width * height
    /\ Len(zbuffer) = width * height
    /\ width = FbWidth
    /\ height = FbHeight

\* A draw call and a pixel write have changed both planes.
C11_Witness ==
    /\ status = "ok"
    /\ Len(log) = 2
    /\ log[1].op = "render_mesh"
    /\ log[2] = SetPixelCall(width - 1, height - 1, Color(255, 255, 255), Fin(RInt(0)))
    /\ PixelDepth(zbuffer, width, 0, 0) = Fin(RInt(0))
    /\ PixelDepth(zbuffer, width, width - 1, height - 1) = Fin(RInt(0))
    /\ Len(buffer) = 4 * Len(zbuffer)

(***************************************************************************)
(* C12.  The alpha byte of every pixel is 255 in every reachable state,    *)
(* from construction onward.                                               *)
(***************************************************************************)
C12_AlphaAlwaysOpaque ==
    \A p \in AllPixels : PixelAlpha(buffer, p[1], p[2]) = 255

(***************************************************************************)
(* Triangles and points in the plane, by the signs of cross products.      *)
(***************************************************************************)
\* Twice the signed area of (o, a, b).
Cross(o, a, b) ==
    RSub(RMul(RSub(a[1], o[1]), RSub(b[2], o[2])),
         RMul(RSub(a[2], o[2]), RSub(b[1], o[1])))

Sign(r) == IF r[1] > 0 THEN 1 ELSE IF r[1] < 0 THEN -1 ELSE 0

\* The side of p relative to each edge, multiplied by the orientation of
\* the triangle: 1 on the inner side, 0 on the line, -1 on the outer side.
EdgeSides(p, a, b, c) ==
    LET o == Sign(Cross(a, b, c))
    IN  <<o * Sign(Cross(a, b, p)), o * Sign(Cross(b, c, p)), o * Sign(Cross(c, a, p))>>

StrictlyInside(p, a, b, c) == \A k \in 1..3 : EdgeSides(p, a, b, c)[k] = 1
Outside(p, a, b, c) == \E k \in 1..3 : EdgeSides(p, a, b, c)[k] = -1

\* The triangle is not degenerate: barycentric's denominator is not below
\* 1e-8 in magnitude.
NonDegenerate(a, b, c) ==
    ~ScreenDegenerate([v0 |-> [screen_pos |-> a], v1 |-> [screen_pos |-> b],
                       v2 |-> [screen_pos |-> c]])

(***************************************************************************)
(* C13.  For a non-degenerate triangle (a, b, c) and a point p, the three  *)
(* weights barycentric returns sum to 1; they are all non-negative when p  *)
(* is strictly inside the triangle, and one of them is negative when p is  *)
(* outside.                                                                *)
(***************************************************************************)
C13_BarycentricWeights ==
    \A k \in 1..Len(log) :
        (log[k].op = "barycentric" /\ NonDegenerate(log[k].a, log[k].b, log[k].c)) =>
            LET c == log[k]
                wt == c.out
            IN  /\ RAdd(RAdd(wt[1], wt[2]), wt[3]) = RInt(1)
                /\ StrictlyInside(c.p, c.a, c.b, c.c) =>
                       \A i \in 1..3 : RLe(RInt(0), wt[i])
                /\ Outside(c.p, c.a, c.b, c.c) =>
                       \E i \in 1..3 : RLt(wt[i], RInt(0))

\* A point strictly inside the upper-left half of the viewport.
C13_Witness ==
    /\ Len(log) = 1
    /\ log[1].op = "barycentric"
    /\ log[1].a = <<RInt(0), RInt(0)>>
    /\ log[1].b = <<RInt(4), RInt(0)>>
    /\ log[1].c = <<RInt(0), RInt(2)>>
    /\ log[1].p = <<RInt(1), R(1, 2)>>
    /\ StrictlyInside(log[1].p, log[1].a, log[1].b, log[1].c)
    /\ log[1].out = <<R(1, 2), R(1, 4), R(1, 4)>>

\* Components at most 0 and at least 1, and the channels of a Color.
AtMostZero(c) == c.k = "ninf" \/ (c.k = "fin" /\ RLe(c.v, RInt(0)))
AtLeastOne(c) == c.k = "inf" \/ (c.k = "fin" /\ RLe(RInt(1), c.v))
Channels(color) == <<color.r, color.g, color.b>>

(***************************************************************************)
(* C14.  Color::from_vec3 clamps each component to [0, 1] before scaling   *)
(* to 8 bits: a component <= 0 gives channel 0, a component >= 1 gives     *)
(* channel 255 however large it is, every channel is in 0..255, and the    *)
(* colour a shading program returns is from_vec3 of its final colour.      *)
(***************************************************************************)
C14_FromVec3Clamps ==
    \A k \in 1..Len(log) :
        /\ log[k].op = "from_vec3" =>
              \A i \in 1..3 :
                  /\ Channels(log[k].out)[i] \in 0..255
                  /\ AtMostZero(log[k].v[i]) => Channels(log[k].out)[i] = 0
                  /\ AtLeastOne(log[k].v[i]) => Channels(log[k].out)[i] = 255
        /\ log[k].op = "fragment" =>
              /\ log[k].out = from_vec3(log[k].final_color)
              /\ \A i \in 1..3 : Channels(log[k].out)[i] \in 0..255

\* A colour with a component above 1, one below 0 and one inside.
C14_Witness ==
    /\ Len(log) = 1
    /\ log[1].op = "from_vec3"
    /\ log[1].v = <<Fin(R(3, 2)), Fin(R(-1, 2)), Fin(R(1, 2))>>
    /\ log[1].out = Color(255, 0, 127)

(***************************************************************************)
(* C15.  For any finite input the lattice noise computes the hashes of the *)
(* 8 surrounding lattice corners without an integer-overflow trap, and     *)
(* every hash is in 0..255.                                                *)
(***************************************************************************)
C15_HashesWithoutTrap ==
    \A k \in 1..Len(log) :
        log[k].op = "perlin_noise" =>
            /\ log[k].out.status = "ok"
            /\ Len(log[k].out.hashes) = 8
            /\ \A i \in 1..Len(log[k].out.hashes) : log[k].out.hashes[i] \in 0..255

\* The unit interval.
InUnitInterval(r) == RLe(RInt(0), r) /\ RLe(r, RInt(1))

(***************************************************************************)
(* C17.  For arbitrary finite inputs the lattice noise returns a value of  *)
(* [0, 1], and the cellular noise returns a value of [0, 1].               *)
(***************************************************************************)
C17_NoiseInUnitInterval ==
    \A k \in 1..Len(log) :
        /\ log[k].op = "perlin_noise" =>
              (log[k].out.status = "ok" /\ InUnitInterval(log[k].out.value))
        /\ log[k].op = "cellular_noise" => InUnitInterval(log[k].out)

(***************************************************************************)
(* C16.  For rings >= 2 and sectors >= 1, create_sphere returns a mesh     *)
(* with 2 + (rings - 1) * (sectors + 1) vertices and 6 * sectors *         *)
(* (rings - 1) indices; the number of indices is a multiple of 3 and every *)
(* index is less than the number of vertices.                              *)
(***************************************************************************)
C16_SphereMeshValid ==
    \A k \in 1..Len(log) :
        log[k].op = "create_sphere" =>
            LET c == log[k]
                mesh == c.out
            IN  /\ Len(mesh.vertices) = 2 + (c.rings - 1) * (c.sectors + 1)
                /\ Len(mesh.indices) = 6 * c.sectors * (c.rings - 1)
                /\ Len(mesh.indices) % 3 = 0
                /\ \A i \in 1..Len(mesh.indices) :
                       mesh.indices[i] >= 0 /\ mesh.indices[i] < Len(mesh.vertices)

\* The sphere of three rings and two sectors: two triangles at each pole
\* and two quads between the two rings of vertices.
C16_Witness ==
    /\ Len(log) = 1
    /\ log[1].op = "create_sphere"
    /\ log[1].rings = 3
    /\ log[1].sectors = 2
    /\ Len(log[1].out.vertices) = 8
    /\ log[1].out.indices =
           <<0, 1, 2, 0, 2, 3, 1, 4, 2, 2, 4, 5, 2, 5, 3, 3, 5, 6, 4, 7, 5, 5, 7, 6>>

(***************************************************************************)
(* The viewport and the box of a triangle, for the properties of           *)
(* rasterize_triangle.                                                     *)
(***************************************************************************)
\* The set_pixel calls a rasterize_triangle call issues, in order.
Writes(c) == TriangleWrites(renderer, c.v0, c.v1, c.v2, c.shader, c.time)

Positions(c) == <<c.v0.screen_pos, c.v1.screen_pos, c.v2.screen_pos>>
Least(S) == CHOOSE r \in S : \A q \in S : RLe(r, q)
Greatest(S) == CHOOSE r \in S : \A q \in S : RLe(q, r)
ClampTo(i, lo, hi) == IF i < lo THEN lo ELSE IF i > hi THEN hi ELSE i

\* The bounding box of the three positions, each bound clamped to the
\* columns 0..width-1 and the rows 0..height-1.
ClampedBox(c) ==
    LET xs == {Positions(c)[k][1] : k \in 1..3}
        ys == {Positions(c)[k][2] : k \in 1..3}
    IN  [min_x |-> ClampTo(RFloor(Least(xs)), 0, width - 1),
         max_x |-> ClampTo(RCeil(Greatest(xs)), 0, width - 1),
         min_y |-> ClampTo(RFloor(Least(ys)), 0, height - 1),
         max_y |-> ClampTo(RCeil(Greatest(ys)), 0, height - 1)]

ViewportCorners ==
    {<<RInt(0), RInt(0)>>, <<RInt(width), RInt(0)>>,
     <<RInt(0), RInt(height)>>, <<RInt(width), RInt(height)>>}

\* The triangle lies entirely outside the viewport: a side of the viewport
\* or an edge of the triangle separates the two.
OutsideViewport(c) ==
    LET ps == Positions(c)
    IN  \/ \A k \in 1..3 : RLt(ps[k][1], RInt(0))
        \/ \A k \in 1..3 : RLt(RInt(width), ps[k][1])
        \/ \A k \in 1..3 : RLt(ps[k][2], RInt(0))
        \/ \A k \in 1..3 : RLt(RInt(height), ps[k][2])
        \/ \E k \in 1..3 : \A q \in ViewportCorners :
              EdgeSides(q, ps[1], ps[2], ps[3])[k] = -1

Centre(x, y) == <<R(2 * x + 1, 2), R(2 * y + 1, 2)>>

\* The pixels the loops of a rasterize_triangle call go through.
Visited(c) ==
    LET bb == BoundingBox(renderer, c.v0, c.v1, c.v2)
    IN  {<<x, y>> : x \in bb.min_x..bb.max_x, y \in bb.min_y..bb.max_y}

\* The centre of the pixel is on an edge of the triangle of call c.
OnEdge(c, x, y) ==
    LET e == EdgeSides(Centre(x, y), c.v0.screen_pos, c.v1.screen_pos, c.v2.screen_pos)
    IN  (\A k \in 1..3 : e[k] >= 0) /\ (\E k \in 1..3 : e[k] = 0)

\* The set_pixel calls of ws applied in order.
RECURSIVE Submit(_, _)
Submit(fb, ws) ==
    IF ws = <<>> THEN fb
    ELSE Submit(set_pixel(fb, Head(ws).x, Head(ws).y, Head(ws).color, Head(ws).depth),
                Tail(ws))

(***************************************************************************)
(* C19.  A pixel the loops go through is submitted to set_pixel exactly    *)
(* when the three weights of its centre are >= 0, with the depth w0 * d0 + *)
(* w1 * d1 + w2 * d2; a pixel whose centre is on an edge of the triangle   *)
(* is submitted, so two triangles that share the edge both submit it, and  *)
(* the framebuffer is what the depth-tested set_pixel makes of the         *)
(* submitted writes.                                                       *)
(***************************************************************************)
C19_CoverageAndDepth ==
    [][IsCall("rasterize_triangle") =>
          \A c \in {NewCall} : \A issued \in {Writes(c)} :
              LET Weights(x, y) ==
                      barycentric(Centre(x, y), c.v0.screen_pos, c.v1.screen_pos,
                                  c.v2.screen_pos)
                  Submitted(x, y) ==
                      \E k \in 1..Len(issued) : issued[k].x = x /\ issued[k].y = y
              IN  /\ \A p \in Visited(c) :
                        Submitted(p[1], p[2]) <=>
                            \A i \in 1..3 : RLe(RInt(0), Weights(p[1], p[2])[i])
                  /\ \A k \in 1..Len(issued) :
                        \A wt \in {Weights(issued[k].x, issued[k].y)} :
                            /\ <<issued[k].x, issued[k].y>> \in Visited(c)
                            /\ issued[k].depth =
                                   Fin(RAdd(RAdd(RMul(wt[1], c.v0.depth),
                                                 RMul(wt[2], c.v1.depth)),
                                            RMul(wt[3], c.v2.depth)))
                  /\ \A p \in Visited(c) :
                        OnEdge(c, p[1], p[2]) => Submitted(p[1], p[2])
                  /\ Fb' = Submit(Fb, issued)]_vars

C19_Witness ==
    /\ Len(log) = 2
    /\ log[1].op = "rasterize_triangle"
    /\ log[2].op = "rasterize_triangle"
    /\ Positions(log[1]) = <<<<RInt(0), RInt(0)>>, <<RInt(2), RInt(2)>>,
                             <<RInt(0), RInt(2)>>>>
    /\ Positions(log[2]) = <<<<RInt(0), RInt(0)>>, <<RInt(2), RInt(0)>>,
                             <<RInt(2), RInt(2)>>>>
    /\ OnEdge(log[1], 1, 1)
    /\ OnEdge(log[2], 1, 1)
    /\ \E k \in 1..Len(Writes(log[1])) :
          /\ Writes(log[1])[k].x = 1 /\ Writes(log[1])[k].y = 1
          /\ Writes(log[1])[k].depth = Fin(R(7, 8))
    /\ \E k \in 1..Len(Writes(log[2])) :
          /\ Writes(log[2])[k].x = 1 /\ Writes(log[2])[k].y = 1
          /\ Writes(log[2])[k].depth = Fin(RInt(0))
    /\ PixelDepth(zbuffer, width, 1, 1) = Fin(RInt(0))

\* The depths submitted for pixel (x, y) by the calls of the log, in order.
RECURSIVE DepthsFor(_, _, _)
DepthsFor(ws, x, y) ==
    IF ws = <<>> THEN <<>>
    ELSE (IF Head(ws).x = x /\ Head(ws).y = y THEN <<Head(ws).depth>> ELSE <<>>)
         \o DepthsFor(Tail(ws), x, y)

RECURSIVE AllWrites(_, _)
AllWrites(rd, items) ==
    IF items = <<>> THEN <<>>
    ELSE ItemWrites(rd, Head(items)) \o AllWrites(rd, Tail(items))

SubmittedDepths(x, y) == DepthsFor(AllWrites(renderer, Items(renderer, log)), x, y)

\* The minimum of a sequence of depths, as f32::min folds it from
\* +infinity: a NaN is no depth and is passed over.
MinDepth(ds) ==
    LET S == {ds[k] : k \in 1..Len(ds)} \cup {Inf}
        C == {d \in S : d.k # "nan"}
    IN  CHOOSE d \in C : \A e \in C : ~FLt(e, d)

(***************************************************************************)
(* C20.  After a clear and any set_pixel and render_mesh calls, the depth  *)
(* stored at each pixel is the minimum of the depths submitted for that    *)
(* pixel since the clear, +infinity if there was none; and no call but     *)
(* clear makes the stored depth of a pixel greater.                        *)
(***************************************************************************)
C20_StoredDepthIsMinimum ==
    /\ [](base.kind = "clear" =>
             \A p \in AllPixels :
                 PixelDepth(zbuffer, width, p[1], p[2])
                     = MinDepth(SubmittedDepths(p[1], p[2])))
    /\ [][(IsCall("set_pixel") \/ IsCall("render_mesh")) =>
             \A p \in AllPixels :
                 ~FLt(PixelDepth(zbuffer, width, p[1], p[2]),
                      PixelDepth(zbuffer', width, p[1], p[2]))]_vars

\* After a clear, a draw call and a set_pixel submitted different depths
\* for one pixel, the later one the farther, and the nearer one is stored.
C20_Witness ==
    /\ base.kind = "clear"
    /\ Len(log) = 2
    /\ log[1].op = "render_mesh"
    /\ log[2].op = "set_pixel"
    /\ LET ds == SubmittedDepths(log[2].x, log[2].y)
       IN  /\ InBounds(log[2].x, log[2].y)
           /\ Len(ds) >= 2
           /\ FLt(ds[1], ds[Len(ds)])
           /\ PixelDepth(zbuffer, width, log[2].x, log[2].y) = MinDepth(ds)
           /\ PixelDepth(zbuffer, width, log[2].x, log[2].y) # ds[Len(ds)]

\* The depth of pixel p strictly decreases in the step.
DepthDecreases(p) ==
    FLt(PixelDepth(zbuffer', width, p[1], p[2]), PixelDepth(zbuffer, width, p[1], p[2]))

\* The colour of the earliest of the writes ws that submitted depth d for
\* pixel p.
EarliestColor(ws, p, d) ==
    LET K == {k \in 1..Len(ws) : ws[k].x = p[1] /\ ws[k].y = p[2] /\ ws[k].depth = d}
    IN  IF K = {} THEN <<>>
        ELSE Rgb(ws[CHOOSE k \in K : \A j \in K : k <= j].color)

(***************************************************************************)
(* C21.  As the claim words it: in a set_pixel step the colour of a pixel  *)
(* changes exactly when its stored depth strictly decreases.               *)
(***************************************************************************)
C21_ColorChangesIffDepthDecreases ==
    [][IsCall("set_pixel") =>
          \A p \in AllPixels :
              (PixelRgb(buffer', p[1], p[2]) # PixelRgb(buffer, p[1], p[2]))
                  <=> DepthDecreases(p)]_vars

(***************************************************************************)
(* C21, amended.  In a set_pixel step the colour of a pixel is overwritten *)
(* with the submitted colour exactly when its stored depth strictly        *)
(* decreases, so its colour can change only then (and does not when the    *)
(* submitted colour is the one it shows); a pixel whose depth does not     *)
(* decrease keeps colour and depth.  After a clear(c), a pixel with depth  *)
(* +infinity shows c and a pixel with a finite depth shows the colour of   *)
(* the earliest write that submitted that depth.                           *)
(***************************************************************************)
C21_ColorOverwrittenIffDepthDecreases ==
    /\ [][IsCall("set_pixel") =>
             \A p \in AllPixels :
                 /\ (PixelRgb(buffer', p[1], p[2]) # PixelRgb(buffer, p[1], p[2]))
                        => DepthDecreases(p)
                 /\ DepthDecreases(p) =>
                        /\ p = <<NewCall.x, NewCall.y>>
                        /\ PixelRgb(buffer', p[1], p[2]) = Rgb(NewCall.color)
                        /\ PixelDepth(zbuffer', width, p[1], p[2]) = NewCall.depth
                 /\ ~DepthDecreases(p) => SamePixel(p[1], p[2])]_vars
    /\ [](base.kind = "clear" =>
             \A p \in AllPixels :
                 LET d == PixelDepth(zbuffer, width, p[1], p[2])
                 IN  PixelRgb(buffer, p[1], p[2]) =
                         IF d = Inf THEN Rgb(base.color)
                         ELSE EarliestColor(AllWrites(renderer, Items(renderer, log)), p, d))

\* After a clear, two set_pixel calls submitted the same colour for one
\* pixel, the second the nearer: the depth went down and the colour stayed.
C21_Witness ==
    /\ base.kind = "clear"
    /\ Len(log) = 2
    /\ log[1].op = "set_pixel"
    /\ log[2].op = "set_pixel"
    /\ InBounds(log[1].x, log[1].y)
    /\ <<log[1].x, log[1].y>> = <<log[2].x, log[2].y>>
    /\ log[1].color = log[2].color
    /\ FLt(log[2].depth, log[1].depth)
    /\ Rgb(log[1].color) # Rgb(base.color)
    /\ PixelDepth(zbuffer, width, log[2].x, log[2].y) = log[2].depth
    /\ PixelRgb(buffer, log[2].x, log[2].y) = Rgb(log[1].color)

(***************************************************************************)
(* What the properties of the loop are stated with.                        *)
(***************************************************************************)
\* The step is a frame (only a frame writes the locals of main);
\* RenderedCall is its render_mesh call.
IsFrame == mainVars' # mainVars
RenderedCall == log'[1]

(***************************************************************************)
(* C22.  A frame that begins paused (every frame after the one in which    *)
(* SPACE paused, up to and including the one in which SPACE resumes)       *)
(* hands render_mesh the time of the frame before it, which is the time of *)
(* the frame in which pause was pressed; a frame that begins not paused    *)
(* hands it the clock reading of that frame.                               *)
(***************************************************************************)
C22_TimeFrozenWhilePaused ==
    /\ [][IsFrame =>
             /\ RenderedCall.time = frame_time'
             /\ paused => (frame_time' = frame_time /\ frame_time' = paused_time)
             /\ ~paused => frame_time' = current_real_time'
             /\ (~paused /\ paused') => paused_time' = frame_time'
             /\ (paused /\ paused') => paused_time' = paused_time]_vars
    /\ [](paused => paused_time = frame_time)

\* The loop was paused at tick 1, drew a paused frame at tick 2 and was
\* resumed at tick 3: both frames drew with time 1.
C22_Witness ==
    /\ current_real_time = 3
    /\ ~paused
    /\ "SPACE" \in keys
    /\ frame_time = 1
    /\ paused_time = 1
    /\ last_active_time = 1
    /\ log[1].time = 1

\* The camera distance changes by at most n steps of 0.02.
WithinSteps(d, e, n) == RLe(RAbs(RSub(e, d)), R(n, 50))

(***************************************************************************)
(* C23.  The camera distance starts at 3.5, stays within [2.0, 10.0]       *)
(* whatever UP and DOWN keys are held frame after frame, and changes in a  *)
(* frame by at most 0.02 for each of the two keys that is held.            *)
(***************************************************************************)
C23_CameraDistanceInRange ==
    /\ camera_distance = R(7, 2)
    /\ [](RLe(RInt(2), camera_distance) /\ RLe(camera_distance, RInt(10)))
    /\ [][WithinSteps(camera_distance, camera_distance',
                      Cardinality(keys' \cap {"UP", "DOWN"}))]_vars

\* DOWN has been held from 3.5 up to 10.0, the far end of the range.
C23_Witness ==
    /\ camera_distance = RInt(10)
    /\ keys = {"DOWN"}
    /\ current_real_time = MaxClock

(***************************************************************************)
(* C24.  The selected shader index is always in 0..3, an index into the    *)
(* four shader names, and the star's shading program is the one of that    *)
(* index (0 Classic-Sun, 1 Pulsar, 2 Plasma, 3 Supernova); a frame in      *)
(* which none of the keys 1 to 4 is pressed (M, SPACE, UP, DOWN or no key) *)
(* leaves the selected shader and the program as they were.                *)
(***************************************************************************)
C24_ShaderIndexValid ==
    /\ [](/\ current_shader \in 0..3
          /\ current_shader + 1 \in DOMAIN shader_names
          /\ star.shader = <<"ClassicSunShader", "PulsarShader", "PlasmaStarShader",
                             "SupernovaShader">>[current_shader + 1])
    /\ [][IsFrame =>
             /\ RenderedCall.shader = current_shader'
             /\ keys' \cap {"ONE", "TWO", "THREE", "FOUR"} = {}
                    => (current_shader' = current_shader /\ star'.shader = star.shader)
             /\ "ONE" \in keys' /\ keys' \cap {"TWO", "THREE", "FOUR"} = {}
                    => current_shader' = 0
             /\ "TWO" \in keys' /\ keys' \cap {"THREE", "FOUR"} = {}
                    => current_shader' = 1
             /\ "THREE" \in keys' /\ "FOUR" \notin keys' => current_shader' = 2
             /\ "FOUR" \in keys' => current_shader' = 3]_vars

\* Supernova was selected and the model then toggled: the new star still
\* runs Supernova.
C24_Witness ==
    /\ current_shader = 3
    /\ keys = {"M"}
    /\ is_some(obj_sphere)
    /\ ~use_obj_model
    /\ star = [mesh |-> sphere_mesh, shader |-> "SupernovaShader"]
    /\ log[1].shader = 3

(***************************************************************************)
(* C25.  use_obj_model is true only if the model file was loaded.  When    *)
(* the load failed the flag is false from the start, no frame changes it,  *)
(* with M pressed or not, and every frame draws the procedural sphere.     *)
(***************************************************************************)
C25_LoadedFlagNeedsModel ==
    /\ [](/\ use_obj_model => is_some(obj_sphere)
          /\ ~is_some(obj_sphere) => (~use_obj_model /\ star.mesh = sphere_mesh)
          /\ is_some(obj_sphere) =>
                 star.mesh = IF use_obj_model THEN obj_sphere[1] ELSE sphere_mesh)
    /\ [][IsFrame =>
             /\ obj_sphere' = obj_sphere
             /\ RenderedCall.mesh = star'.mesh
             /\ ~is_some(obj_sphere) =>
                    (use_obj_model' = use_obj_model /\ RenderedCall.mesh = sphere_mesh)
             /\ (is_some(obj_sphere) /\ "M" \in keys') => use_obj_model' = ~use_obj_model
             /\ "M" \notin keys' => use_obj_model' = use_obj_model]_vars

\* The load failed and M was pressed: the flag is false and the frame drew
\* the procedural sphere.
C25_Witness ==
    /\ ~is_some(obj_sphere)
    /\ "M" \in keys
    /\ ~use_obj_model
    /\ log[1].mesh = sphere_mesh
    /\ sphere_mesh # LoadedMesh

====
